---- MODULE Spec2Model ----
(***************************************************************************)
(* Rich text editing sessions of richtext.js: the base class EditableBase  *)
(* and its three host strategies EditableGecko, EditableWebkit and         *)
(* EditableIE, together with the part of the host (DOM, command state,     *)
(* selection, listeners) that their methods read and write.                *)
(*                                                                         *)
(* Every method is an operator from a world record to a world record; a    *)
(* JavaScript exception is the field exc of the world, and every step      *)
(* after a throw is skipped.  One action of Next is one top-level call of  *)
(* the embedding application or one host event, run to completion.         *)
(***************************************************************************)
EXTENDS Integers, Sequences, FiniteSets, TLC

\* ------------------------------------------------------------ bounds
NumSessions == 2
NumNodes == 2
MaxHeight == 2
MaxText == 2
MaxOffset == 1

\* ------------------------------------------------------------ values
NULL == "null"
UNDEFINED == "undefined"
DOCUMENT == "document"
DETACHED == "detached"
TEXT == "text"
EMPTY == ""

ELEMENT_NODE == 1
TEXT_NODE == 3

Sessions == {"s" \o ToString(i) : i \in 1..NumSessions}
Nodes == {"n" \o ToString(i) : i \in 1..NumNodes}
Heights == 1..MaxHeight
Hosts == {"Gecko", "Webkit", "IE"}

\* JavaScript values that need a type: [type, v]
Num(n) == [type |-> "number", v |-> n]
Str(s) == [type |-> "string", v |-> s]
JNull == [type |-> "null", v |-> 0]
JUndef == [type |-> "undefined", v |-> 0]
Bool(b) == [type |-> "boolean", v |-> IF b THEN 1 ELSE 0]
JFalse == Bool(FALSE)
Arr(a) == [type |-> "array", v |-> a]

\* ToBoolean of a typed value: 0, "" , null and false are falsy
Truthy(x) ==
    CASE x.type = "number" -> x.v # 0
      [] x.type = "string" -> x.v # <<>>
      [] x.type = "boolean" -> x.v # 0
      [] x.type = "array" -> TRUE
      [] OTHER -> FALSE

\* ------------------------------------------------------------ convertColor
HexDigits == <<"0", "1", "2", "3", "4", "5", "6", "7", "8", "9", "a", "b", "c", "d", "e", "f">>
DecDigits == <<"0", "1", "2", "3", "4", "5", "6", "7", "8", "9">>
WhiteSpace == {" ", "\t", "\n", "\r"}

IsDigit(c) == \E i \in 1..10 : DecDigits[i] = c
DigitVal(c) == (CHOOSE i \in 1..10 : DecDigits[i] = c) - 1

\* Number.prototype.toString(16) of a non-negative integer
RECURSIVE toString16(_)
toString16(d) ==
    IF d < 16 THEN <<HexDigits[d + 1]>>
    ELSE toString16(d \div 16) \o <<HexDigits[(d % 16) + 1]>>

\* hex(d), line 25-27: one leading zero below 16, the plain digits otherwise
hex(d) == IF d < 16 THEN <<"0">> \o toString16(d) ELSE toString16(d)

\* parseInt of a string of decimal digits
RECURSIVE parseInt(_)
parseInt(s) ==
    IF s = <<>> THEN 0
    ELSE 10 * parseInt(SubSeq(s, 1, Len(s) - 1)) + DigitVal(s[Len(s)])

\* first position >= i of s that holds no white space (Len(s) + 1 if none)
RECURSIVE SkipSpace(_, _)
SkipSpace(s, i) ==
    IF i <= Len(s) /\ s[i] \in WhiteSpace THEN SkipSpace(s, i + 1) ELSE i

\* first position >= i of s that holds no decimal digit
RECURSIVE SkipDigits(_, _)
SkipDigits(s, i) ==
    IF i <= Len(s) /\ IsDigit(s[i]) THEN SkipDigits(s, i + 1) ELSE i

At(s, i, c) == i <= Len(s) /\ s[i] = c

\* The regular expression of line 37 tried at position i of s.  \s* and
\* [0-9]+ are greedy and never followed by a character of their own class,
\* so matching without backtracking is exact.  <<>> when there is no match
\* at i, the three digit strings otherwise.
reMatchAt(s, i) ==
    IF ~(At(s, i, "r") /\ At(s, i + 1, "g") /\ At(s, i + 2, "b")) THEN <<>>
    ELSE LET p1 == SkipSpace(s, i + 3) IN
    IF ~At(s, p1, "(") THEN <<>>
    ELSE LET r1 == SkipSpace(s, p1 + 1)
             r2 == SkipDigits(s, r1) IN
    IF r2 = r1 THEN <<>>
    ELSE LET c1 == SkipSpace(s, r2) IN
    IF ~At(s, c1, ",") THEN <<>>
    ELSE LET g1 == SkipSpace(s, c1 + 1)
             g2 == SkipDigits(s, g1) IN
    IF g2 = g1 THEN <<>>
    ELSE LET c2 == SkipSpace(s, g2) IN
    IF ~At(s, c2, ",") THEN <<>>
    ELSE LET b1 == SkipSpace(s, c2 + 1)
             b2 == SkipDigits(s, b1) IN
    IF b2 = b1 THEN <<>>
    ELSE LET p2 == SkipSpace(s, b2) IN
    IF ~At(s, p2, ")") THEN <<>>
    ELSE <<SubSeq(s, r1, r2 - 1), SubSeq(s, g1, g2 - 1), SubSeq(s, b1, b2 - 1)>>

\* v.match(re): the leftmost match anywhere in s
RECURSIVE reMatch(_, _)
reMatch(s, i) ==
    IF i > Len(s) THEN <<>>
    ELSE IF reMatchAt(s, i) # <<>> THEN reMatchAt(s, i)
    ELSE reMatch(s, i + 1)

\* v.substr(0, n)
substr0(s, n) == SubSeq(s, 1, IF n < Len(s) THEN n ELSE Len(s))

\* convertColor(v), line 22-52.  v is a number or a string; a number is
\* taken as the 32-bit integer the bit operators make of it.
convertColorNoHash(v) ==
    IF v.type = "number" THEN
        LET r == v.v % 256
            g == (v.v \div 256) % 256
            b == (v.v \div 65536) % 256
        IN Str(<<"#">> \o hex(r) \o hex(g) \o hex(b))
    ELSE IF substr0(v.v, 3) = <<"r", "g", "b">> THEN
        LET m == reMatch(v.v, 1) IN
        IF m # <<>> THEN
            Str(<<"#">> \o hex(parseInt(m[1])) \o hex(parseInt(m[2])) \o hex(parseInt(m[3])))
        ELSE JNull
    ELSE JNull

convertColor(v) ==
    IF v.type = "number" THEN
        LET r == v.v % 256
            g == (v.v \div 256) % 256
            b == (v.v \div 65536) % 256
        IN Str(<<"#">> \o hex(r) \o hex(g) \o hex(b))
    ELSE IF substr0(v.v, 3) = <<"r", "g", "b">> THEN
        LET m == reMatch(v.v, 1) IN
        IF m # <<>> THEN
            Str(<<"#">> \o hex(parseInt(m[1])) \o hex(parseInt(m[2])) \o hex(parseInt(m[3])))
        ELSE JNull
    ELSE IF substr0(v.v, 1) = <<"#">> THEN v
    ELSE JNull

\* ------------------------------------------------------------ state
VARIABLES
    host,               \* the browser the page runs in: which strategy the application constructs
    hasStyle,           \* whether the hosting document holds a <style> element
    scope,              \* what happens in this world: the sessions the application constructs,
                        \* the raw forecolor values the host reports, the extents of the
                        \* user's selections and the lengths of the texts the user types
    obj,                \* the fields of every session object
    EditableGeckoRef,   \* line 411
    editableWebkitRef,  \* line 526
    editableIERef,      \* line 643
    slot,               \* Gecko: what the parent holds in a node's place, "node" or "frame"
    style,              \* inline style of the element of a slot (inside the frame while it is swapped out)
    frameStyle,         \* inline style of the frame standing in a slot
    designMode,         \* designMode of the sub-document of the frame in a slot
    contentEditable,    \* contentEditable of a node
    listeners,          \* sessions whose addEventListener/attachEvent registered the shared handler on a node or frame
    cmdState,           \* what queryCommandState / queryCommandValue report
    selection,          \* the host's current selection
    innerText,          \* rendered text of a node
    bodyHeight,         \* offsetHeight of the sub-document's body
    lastOp,             \* the call or event that ran last
    ret,                \* what it returned, or "TypeError" when it threw
    log                 \* the hooks, host commands and callbacks it ran, in order

vars == <<host, hasStyle, scope, obj, EditableGeckoRef, editableWebkitRef, editableIERef,
          slot, style, frameStyle, designMode, contentEditable, listeners,
          cmdState, selection, innerText, bodyHeight, lastOp, ret, log>>

\* The world a method runs in: the mutable state plus the thrown flag exc,
\* the return value rv of the call that just ended and the log.
World ==
    [obj |-> obj, EditableGeckoRef |-> EditableGeckoRef,
     editableWebkitRef |-> editableWebkitRef, editableIERef |-> editableIERef,
     slot |-> slot, style |-> style, frameStyle |-> frameStyle,
     designMode |-> designMode, contentEditable |-> contentEditable,
     listeners |-> listeners, cmdState |-> cmdState, selection |-> selection,
     innerText |-> innerText, bodyHeight |-> bodyHeight,
     exc |-> FALSE, rv |-> UNDEFINED, log |-> <<>>]

\* v named x in F, and the same for a world whose call has not thrown: every
\* step after a throw is skipped
Let(v, F(_)) == CHOOSE r \in {F(x) : x \in {v}} : TRUE
Bind(v, F(_)) == CHOOSE r \in {IF x.exc THEN x ELSE F(x) : x \in {v}} : TRUE

Throw(w) == [w EXCEPT !.exc = TRUE]
Return(w, v) == [w EXCEPT !.rv = v]
Put(w, s, f, v) == [w EXCEPT !.obj[s][f] = v]
Note(w, e, s, arg) == [w EXCEPT !.log = Append(@, [e |-> e, s |-> s, arg |-> arg])]

\* ------------------------------------------------------------ host model
NoStyle == [width |-> EMPTY, height |-> EMPTY, position |-> EMPTY, top |-> EMPTY, left |-> EMPTY]
InlineStyle == [width |-> "200px", height |-> "50px", position |-> "absolute", top |-> "10px", left |-> "20px"]
Px(n) == ToString(n) \o "px"

\* Webkit: window.getSelection() as its four fields; IE: the range
\* document.selection.createRange() returns, as character positions in a node
NoSelection == [baseNode |-> NULL, baseOffset |-> 0, extentNode |-> NULL, extentOffset |-> 0]
Range(n, a, b) == [type |-> "range", v |-> [node |-> n, start |-> a, end |-> b]]
NoRange == Range(NULL, 0, 0)

Min(a, b) == IF a < b THEN a ELSE b
Max(a, b) == IF a > b THEN a ELSE b

\* rendered text of the node a range lies in ("" outside the nodes)
TextOf(w, n) == IF n \in Nodes THEN w.innerText[n] ELSE <<>>

\* TextRange.text: the characters of the live text the range covers
rangeText(w, r) ==
    LET txt == TextOf(w, r.v.node)
    IN SubSeq(txt, Min(r.v.start, Len(txt)) + 1, Min(r.v.end, Len(txt)))

\* TextRange.moveStart("character", count): the start moves forward by
\* count characters, stops at the end of the text and pushes the end along
moveStart(w, r, count) ==
    LET txt == TextOf(w, r.v.node)
        a == Min(r.v.start + count, Len(txt))
    IN Range(r.v.node, a, Max(a, r.v.end))

\* nodeType of what the application may hand to editableOn
nodeType(x) == IF x \in Nodes THEN ELEMENT_NODE ELSE TEXT_NODE

\* document.execCommand(command, false, false): bold toggles, an unknown
\* command name fails
Commands == {"bold", "bogus"}
hostExecCommand(w, command) ==
    IF command = "bold"
    THEN Return([w EXCEPT !.cmdState.bold = ~@], "true")
    ELSE Return(w, "false")

queryCommandState(w, command) ==
    IF command = "bold" THEN Bool(w.cmdState.bold) ELSE Bool(FALSE)

queryCommandValue(w, command) ==
    CASE command = "fontname" -> Str(<<"A", "r", "i", "a", "l">>)
      [] command = "fontsize" -> Str(<<"3">>)
      [] command = "forecolor" -> w.cmdState.forecolor
      [] OTHER -> Str(<<>>)

\* ------------------------------------------------------------ EditableBase
\* this.commands, line 80-87
commands ==
    <<<<"bold", "state">>, <<"italic", "state">>, <<"underline", "state">>,
      <<"fontname", "value">>, <<"fontsize", "value">>, <<"forecolor", "value">>>>

CommandNames == {commands[i][1] : i \in DOMAIN commands}
TypeOf(command) == (CHOOSE i \in DOMAIN commands : commands[i][1] = command)
CommandType(command) == commands[TypeOf(command)][2]

\* command.search(/color/): index of the match, -1 if none
searchColor(command) == IF command = "forecolor" THEN 4 ELSE -1

\* checkNodeType(node), line 109-116
checkNodeType(node) ==
    node # NULL /\ nodeType(node) # 0 /\ ELEMENT_NODE = nodeType(node)

\* one entry of the loop of getCommandState, line 161-174
commandEntry(w, command) ==
    LET type == CommandType(command)
        raw == IF type = "state" THEN queryCommandState(w, command)
               ELSE IF type = "value" THEN queryCommandValue(w, command)
               ELSE Bool(FALSE)
    IN IF searchColor(command) >= 0 /\ Truthy(raw) THEN convertColor(raw) ELSE raw

\* getCommandState(), line 152-179: false without doc or node
getCommandState(w, s) ==
    IF w.obj[s].doc = NULL \/ w.obj[s].node = NULL THEN JFalse
    ELSE Arr([command \in CommandNames |-> commandEntry(w, command)])

\* ------------------------------------------------------------ editableOff
\* EditableBase.editableOff(), line 102-106
EditableBase_editableOff(w, s) == Return(w, "false")

\* the style line 372-376 put on this.node
restoredStyle(orig, fs) ==
    [width |-> IF orig.width # EMPTY THEN fs.width ELSE orig.width,
     height |-> IF orig.height # EMPTY THEN fs.height ELSE orig.height,
     position |-> fs.position,
     top |-> fs.top,
     left |-> fs.left]

\* EditableGecko.editableOff(), line 359-386.  contentWindow of a frame that
\* is in no document is null (line 364 throws); the frame taken out of the
\* parent is unreachable afterwards and its style is forgotten.
EditableGecko_editableOff(w, s) ==
    Let(w, LAMBDA x :
        LET o == x.obj[s]
            f == o.iframe
        IN
        IF f = NULL THEN Return(x, UNDEFINED)
        ELSE IF f = DETACHED THEN Throw(x)
        ELSE IF o.node = NULL
        THEN Throw([x EXCEPT !.listeners[f] = {}, !.designMode[f] = "off"])
        ELSE Return([x EXCEPT !.listeners[f] = {},
                              !.designMode[f] = "off",
                              !.style[f] = restoredStyle(o.originalNode, x.frameStyle[f]),
                              !.slot[f] = "node",
                              !.frameStyle[f] = NoStyle,
                              !.obj[s].iframe = NULL,
                              !.obj[s].node = NULL,
                              !.obj[s].doc = NULL],
                    UNDEFINED))

\* EditableWebkit.editableOff(), line 470-482
EditableWebkit_editableOff(w, s) ==
    Let(w, LAMBDA x :
        LET n == x.obj[s].node IN
        IF n = NULL THEN Throw(x)
        ELSE Return([x EXCEPT !.listeners[n] = {},
                              !.contentEditable[n] = "false",
                              !.obj[s].node = NULL,
                              !.obj[s].doc = NULL],
                    UNDEFINED))

\* EditableIE.editableOff(), line 579-591
EditableIE_editableOff(w, s) ==
    Let(w, LAMBDA x :
        LET n == x.obj[s].node IN
        IF n = NULL THEN Throw(x)
        ELSE Return([x EXCEPT !.listeners[n] = {},
                              !.contentEditable[n] = "false",
                              !.obj[s].node = NULL,
                              !.obj[s].doc = NULL],
                    UNDEFINED))

\* the editableOff the session's class defines
editableOff(w, s) ==
    CASE host = "Gecko" -> EditableGecko_editableOff(w, s)
      [] host = "Webkit" -> EditableWebkit_editableOff(w, s)
      [] host = "IE" -> EditableIE_editableOff(w, s)

\* ------------------------------------------------------------ checkCommandState
\* The registered callback, called with the snapshot.  The application's
\* function either only takes note of it or turns editing off from within.
stateChangeCallback(w, s, arg) ==
    Let(Note(w, "cb", s, arg), LAMBDA x :
        IF x.obj[s].stateChangeCallback = "deactivate"
        THEN Return(editableOff(x, s), UNDEFINED)
        ELSE Return(x, UNDEFINED))

\* ToNumber of a typed value (-1 stands for NaN: no number of the model is negative)
ToNumber(x) ==
    CASE x.type = "number" -> x.v
      [] x.type = "boolean" -> x.v
      [] x.type = "string" ->
            IF x.v = <<>> THEN 0
            ELSE IF SkipDigits(x.v, 1) = Len(x.v) + 1 THEN parseInt(x.v) ELSE -1
      [] OTHER -> -1

\* a != b of two values, neither of them an object
NotEqual(a, b) ==
    IF a.type = b.type THEN a.v # b.v
    ELSE IF {a.type, b.type} \subseteq {"null", "undefined"} THEN FALSE
    ELSE IF a.type \in {"null", "undefined"} \/ b.type \in {"null", "undefined"} THEN TRUE
    ELSE ToNumber(a) = -1 \/ ToNumber(b) = -1 \/ ToNumber(a) # ToNumber(b)

\* this.commandArray of line 194: no line assigns a property of that name
\* (the fresh snapshot is the local variable commandArray), so it reads as
\* undefined
comparedArray(w, s, commandArray) == JUndef

\* x[i] for a property key i: a TypeError on undefined and null, undefined on
\* a primitive
CanIndex(x) == x.type \notin {"undefined", "null"}
Index(x, i) == IF x.type = "array" THEN x.v[i] ELSE JUndef

\* the loop of line 192-199 over the keys of the cached array: whether it
\* throws, and the makeCallback it leaves otherwise
compareThrows(cached, other) == DOMAIN cached.v # {} /\ ~CanIndex(other)
compareDiffers(cached, other) == \E i \in DOMAIN cached.v : NotEqual(cached.v[i], Index(other, i))

\* checkCommandState() with the cache written whenever a change is seen,
\* before the callback is looked at
checkCommandStateCacheAlways(w, s) ==
    Let(Note(w, "check", s, JNull), LAMBDA x :
    Let(getCommandState(x, s), LAMBDA commandArray :
    Let(comparedArray(x, s, commandArray), LAMBDA other :
        LET cached == x.obj[s].cachedCommandArray IN
        IF Truthy(cached) /\ compareThrows(cached, other) THEN Throw(x)
        ELSE IF ~(IF Truthy(cached) THEN compareDiffers(cached, other) ELSE TRUE)
        THEN Return(x, "true")
        ELSE IF x.obj[s].stateChangeCallback # NULL
        THEN Bind(stateChangeCallback(Put(x, s, "cachedCommandArray", commandArray), s, commandArray),
                  LAMBDA y : Return(y, "true"))
        ELSE Return(Put(x, s, "cachedCommandArray", commandArray), "true"))))

\* checkCommandState(), line 182-212
checkCommandState(w, s) ==
    Let(Note(w, "check", s, JNull), LAMBDA x :
    Let(getCommandState(x, s), LAMBDA commandArray :
    Let(comparedArray(x, s, commandArray), LAMBDA other :
        LET cached == x.obj[s].cachedCommandArray IN
        IF Truthy(cached) /\ compareThrows(cached, other) THEN Throw(x)
        ELSE IF /\ (IF Truthy(cached) THEN compareDiffers(cached, other) ELSE TRUE)
                /\ x.obj[s].stateChangeCallback # NULL
        THEN Bind(stateChangeCallback(Put(x, s, "cachedCommandArray", commandArray), s, commandArray),
                  LAMBDA y : Return(y, "true"))
        ELSE Return(x, "true"))))

\* ------------------------------------------------------------ EditableGecko
\* EditableGecko.update(), line 389-393.  The height of a frame that is in
\* no document is kept nowhere.
EditableGecko_update(w, s) ==
    Bind(checkCommandState(Note(w, "update", s, JNull), s), LAMBDA x :
        LET o == x.obj[s] IN
        IF o.iframe = NULL \/ o.doc = NULL THEN Throw(x)
        ELSE IF o.iframe = DETACHED THEN Return(x, UNDEFINED)
        ELSE Return([x EXCEPT !.frameStyle[o.iframe].height = Px(x.bodyHeight)], UNDEFINED))

\* EditableGecko.preExecCommand(), line 396-400
EditableGecko_preExecCommand(w, s) ==
    Let(Note(w, "pre", s, JNull), LAMBDA x :
        IF x.obj[s].iframe = DETACHED THEN Throw(x) ELSE Return(x, UNDEFINED))

\* EditableGecko.postExecCommand(), line 403-406
EditableGecko_postExecCommand(w, s) == EditableGecko_update(Note(w, "post", s, JNull), s)

\* the style line 246-252 give the new frame
frameStyleFor(ns, offsetHeight) ==
    [width |-> IF ns.width # EMPTY THEN ns.width ELSE "100%",
     height |-> IF ns.height # EMPTY THEN ns.height ELSE Px(offsetHeight),
     top |-> IF ns.top # EMPTY THEN ns.top ELSE NoStyle.top,
     left |-> IF ns.left # EMPTY THEN ns.left ELSE NoStyle.left,
     position |-> IF ns.position # EMPTY THEN ns.position ELSE NoStyle.position]

\* the node's own style after line 250-255
staticStyle(ns) == IF ns.position # EMPTY THEN [ns EXCEPT !.position = "static"] ELSE ns

\* EditableGecko.editableOn(node), line 237-356.  offsetHeight is the
\* rendered height the host reports for the node.  A node that has no parent
\* (it was swapped out for a frame before) makes line 264 throw; a hosting
\* document without a <style> element makes line 271 throw.
EditableGecko_editableOn(w, s, node, offsetHeight) ==
    Let(w, LAMBDA x :
        IF ~checkNodeType(node) THEN Return(x, "false")
        ELSE IF x.slot[node] = "frame"
        THEN Throw([x EXCEPT !.obj[s].iframe = DETACHED,
                             !.obj[s].originalNode = staticStyle(x.style[node])])
        ELSE IF ~hasStyle
        THEN Throw([x EXCEPT !.obj[s].iframe = node,
                             !.obj[s].originalNode = staticStyle(x.style[node]),
                             !.style[node] = staticStyle(x.style[node]),
                             !.slot[node] = "frame",
                             !.frameStyle[node] = frameStyleFor(x.style[node], offsetHeight),
                             !.designMode[node] = "off"])
        ELSE Bind(EditableGecko_update(
                    [x EXCEPT !.obj[s].iframe = node,
                              !.obj[s].originalNode = staticStyle(x.style[node]),
                              !.style[node] = staticStyle(x.style[node]),
                              !.slot[node] = "frame",
                              !.frameStyle[node] = frameStyleFor(x.style[node], offsetHeight),
                              !.obj[s].node = node,
                              !.designMode[node] = "on",
                              !.obj[s].doc = node,
                              !.EditableGeckoRef = s,
                              !.listeners[node] = @ \cup {s}], s),
                  LAMBDA y : Return(y, UNDEFINED)))

\* geckoReceiveIframeChange(), line 420-424, which mozSignalIframeChange
\* (line 414-417) calls
geckoReceiveIframeChange(w) ==
    Let(w, LAMBDA x :
        IF x.EditableGeckoRef # NULL
        THEN EditableGecko_update(x, x.EditableGeckoRef)
        ELSE Return(x, UNDEFINED))

mozSignalIframeChange(w) == geckoReceiveIframeChange(w)

\* ------------------------------------------------------------ EditableWebkit
\* EditableWebkit.cacheSelection(), line 485-493
EditableWebkit_cacheSelection(w, s) ==
    Let(w, LAMBDA x :
        Return([x EXCEPT !.obj[s].baseNode = x.selection.baseNode,
                         !.obj[s].baseOffset = x.selection.baseOffset,
                         !.obj[s].extentNode = x.selection.extentNode,
                         !.obj[s].extentOffset = x.selection.extentOffset],
               UNDEFINED))

\* EditableWebkit.highlightSelection(), line 496-502: setBaseAndExtent of the
\* four cached fields (a null offset is offset 0)
EditableWebkit_highlightSelection(w, s) ==
    Let(w, LAMBDA x :
        LET o == x.obj[s] IN
        Return([x EXCEPT !.selection = [baseNode |-> o.baseNode, baseOffset |-> o.baseOffset,
                                        extentNode |-> o.extentNode, extentOffset |-> o.extentOffset]],
               UNDEFINED))

\* EditableWebkit.update(), line 505-509
EditableWebkit_update(w, s) ==
    checkCommandState(EditableWebkit_cacheSelection(Note(w, "update", s, JNull), s), s)

\* EditableWebkit.preExecCommand(), line 512-515
EditableWebkit_preExecCommand(w, s) == EditableWebkit_highlightSelection(Note(w, "pre", s, JNull), s)

\* EditableWebkit.postExecCommand(), line 518-521
EditableWebkit_postExecCommand(w, s) == EditableWebkit_update(Note(w, "post", s, JNull), s)

\* EditableWebkit.editableOn(node), line 447-467
EditableWebkit_editableOnLateCheck(w, s, node) ==
    Let(w, LAMBDA x :
        IF ~checkNodeType(node) THEN Return(Put(x, s, "node", node), "false")
        ELSE Return([x EXCEPT !.obj[s].node = node,
                              !.contentEditable[node] = "true",
                              !.listeners[node] = @ \cup {s},
                              !.obj[s].doc = DOCUMENT,
                              !.editableWebkitRef = s],
                    UNDEFINED))

EditableWebkit_editableOnKeepRef(w, s, node) ==
    Let(w, LAMBDA x :
        IF ~checkNodeType(node) THEN Return(x, "false")
        ELSE Return([x EXCEPT !.obj[s].node = node,
                              !.contentEditable[node] = "true",
                              !.listeners[node] = @ \cup {s},
                              !.obj[s].doc = DOCUMENT,
                              !.editableWebkitRef = IF @ = NULL THEN s ELSE @],
                    UNDEFINED))

EditableWebkit_editableOn(w, s, node) ==
    Let(w, LAMBDA x :
        IF ~checkNodeType(node) THEN Return(x, "false")
        ELSE Return([x EXCEPT !.obj[s].node = node,
                              !.contentEditable[node] = "true",
                              !.listeners[node] = @ \cup {s},
                              !.obj[s].doc = DOCUMENT,
                              !.editableWebkitRef = s],
                    UNDEFINED))

\* webkitCacheSelection(), line 529-533
webkitCacheSelection(w) ==
    Let(w, LAMBDA x :
        IF x.editableWebkitRef # NULL
        THEN EditableWebkit_update(x, x.editableWebkitRef)
        ELSE Return(x, UNDEFINED))

\* ------------------------------------------------------------ EditableIE
\* EditableIE.cacheSelection(), line 594-601: document.selection is an
\* object in this host whatever is selected
EditableIE_cacheSelection(w, s) ==
    Let(w, LAMBDA x :
        IF x.obj[s].doc = NULL THEN Throw(x)
        ELSE IF x.obj[s].node = NULL THEN Throw(Put(x, s, "cachedRange", x.selection))
        ELSE Return([x EXCEPT !.obj[s].cachedRange = x.selection,
                              !.obj[s].cachedInnerText = Str(x.innerText[x.obj[s].node])],
                    UNDEFINED))

\* the range line 613-614 leave in this.cachedRange
shiftedRangeBySnapshot(x, o) ==
    IF /\ NotEqual(o.cachedInnerText, Str(x.innerText[o.node]))
       /\ o.cachedRange.type = "range"
       /\ Len(rangeText(x, o.cachedRange)) >= 0
    THEN moveStart(x, o.cachedRange,
                   IF o.cachedInnerText.type = "string" THEN Len(o.cachedInnerText.v) ELSE 0)
    ELSE o.cachedRange

shiftedRange(x, o) ==
    IF /\ NotEqual(o.cachedInnerText, Str(x.innerText[o.node]))
       /\ o.cachedRange.type = "range"
       /\ Len(rangeText(x, o.cachedRange)) >= 0
    THEN moveStart(x, o.cachedRange, Len(rangeText(x, o.cachedRange)))
    ELSE o.cachedRange

\* EditableIE.highlightSelection(), line 604-619
EditableIE_highlightSelection(w, s) ==
    Let(w, LAMBDA x :
        IF x.obj[s].node = NULL THEN Throw(x)
        ELSE Let(shiftedRange(x, x.obj[s]), LAMBDA moved :
            IF moved.type = "range"
            THEN Return([x EXCEPT !.obj[s].cachedRange = moved, !.selection = moved], UNDEFINED)
            ELSE Return(x, UNDEFINED)))

\* EditableIE.update(), line 622-626
EditableIE_update(w, s) ==
    Bind(EditableIE_cacheSelection(Note(w, "update", s, JNull), s),
         LAMBDA x : checkCommandState(x, s))

\* EditableIE.preExecCommand(), line 629-632
EditableIE_preExecCommand(w, s) == EditableIE_highlightSelection(Note(w, "pre", s, JNull), s)

\* EditableIE.postExecCommand(), line 635-638
EditableIE_postExecCommand(w, s) == EditableIE_update(Note(w, "post", s, JNull), s)

\* EditableIE.editableOn(node), line 556-576
EditableIE_editableOn(w, s, node) ==
    Let(w, LAMBDA x :
        IF ~checkNodeType(node) THEN Return(x, "false")
        ELSE Return([x EXCEPT !.obj[s].node = node,
                              !.contentEditable[node] = "true",
                              !.listeners[node] = @ \cup {s},
                              !.obj[s].doc = DOCUMENT,
                              !.editableIERef = s],
                    UNDEFINED))

\* iECacheSelection(), line 646-650
iECacheSelection(w) ==
    Let(w, LAMBDA x :
        IF x.editableIERef # NULL
        THEN EditableIE_update(x, x.editableIERef)
        ELSE Return(x, UNDEFINED))

\* ------------------------------------------------------------ dispatch
editableOn(w, s, node, offsetHeight) ==
    CASE host = "Gecko" -> EditableGecko_editableOn(w, s, node, offsetHeight)
      [] host = "Webkit" -> EditableWebkit_editableOn(w, s, node)
      [] host = "IE" -> EditableIE_editableOn(w, s, node)

preExecCommand(w, s) ==
    CASE host = "Gecko" -> EditableGecko_preExecCommand(w, s)
      [] host = "Webkit" -> EditableWebkit_preExecCommand(w, s)
      [] host = "IE" -> EditableIE_preExecCommand(w, s)

postExecCommand(w, s) ==
    CASE host = "Gecko" -> EditableGecko_postExecCommand(w, s)
      [] host = "Webkit" -> EditableWebkit_postExecCommand(w, s)
      [] host = "IE" -> EditableIE_postExecCommand(w, s)

\* the shared handler the strategy registers, as the host calls it
handler(w) ==
    CASE host = "Gecko" -> mozSignalIframeChange(w)
      [] host = "Webkit" -> webkitCacheSelection(w)
      [] host = "IE" -> iECacheSelection(w)

\* execCommand(command), line 119-137
execCommandNoGuard(w, s, command) ==
    Let(w, LAMBDA x :
        Bind(preExecCommand(x, s), LAMBDA w1 :
        Let(hostExecCommand(Note(w1, "exec", s, JNull), command), LAMBDA w2 :
        Bind(postExecCommand(w2, s), LAMBDA w3 :
        Bind(checkCommandState(w3, s), LAMBDA w4 : Return(w4, w2.rv))))))

execCommandCheckFirst(w, s, command) ==
    Let(w, LAMBDA x :
        IF x.obj[s].doc = NULL THEN Return(x, "false")
        ELSE Bind(checkCommandState(x, s), LAMBDA w0 :
             Bind(preExecCommand(w0, s), LAMBDA w1 :
             Let(hostExecCommand(Note(w1, "exec", s, JNull), command), LAMBDA w2 :
             Bind(postExecCommand(w2, s), LAMBDA w3 :
             Bind(checkCommandState(w3, s), LAMBDA w4 : Return(w4, w2.rv)))))))

execCommand(w, s, command) ==
    Let(w, LAMBDA x :
        IF x.obj[s].doc = NULL THEN Return(x, "false")
        ELSE Bind(preExecCommand(x, s), LAMBDA w1 :
             Let(hostExecCommand(Note(w1, "exec", s, JNull), command), LAMBDA w2 :
             Bind(postExecCommand(w2, s), LAMBDA w3 :
             Bind(checkCommandState(w3, s), LAMBDA w4 : Return(w4, w2.rv))))))

\* setStateChangeCallBack(callBack), line 146-149
setStateChangeCallBack(w, s, callBack) ==
    Return(Put(w, s, "stateChangeCallback", callBack), UNDEFINED)

\* ------------------------------------------------------------ initial state
\* a session object as the constructors leave it (line 68-77, 228-234,
\* 438-441, 547-550); originalNode is read only after editableOn has set it
NewSession ==
    [doc |-> NULL, node |-> NULL, cachedCommandArray |-> JNull, stateChangeCallback |-> NULL,
     iframe |-> NULL, originalNode |-> NoStyle,
     baseNode |-> NULL, baseOffset |-> 0, extentNode |-> NULL, extentOffset |-> 0,
     cachedRange |-> JNull, cachedInnerText |-> JNull]

\* raw forecolor values of the hosts: none, IE's packed number, Gecko's and
\* Webkit's rgb form, and a value convertColor cannot read
ColorNone == Str(<<>>)
ColorPacked == Num(255)
ColorRgb == Str(<<"r", "g", "b", "(", "2", "5", "5", ",", " ", "0", ",", " ", "0", ")">>)
ColorNamed == Str(<<"r", "e", "d">>)
RawColors == {ColorNone, ColorPacked, ColorRgb, ColorNamed}

CmdStates == [bold : BOOLEAN, forecolor : scope.colors]

Text(k) == [i \in 1..k |-> "x"]
Texts == {Text(k) : k \in scope.texts}

\* where the user can put the selection: inside a node that is editable, or
\* somewhere else in the page
Editable == {n \in Nodes : contentEditable[n] = "true"}
Selections ==
    IF host = "Webkit"
    THEN {NoSelection} \cup
         {[baseNode |-> n, baseOffset |-> 0, extentNode |-> n, extentOffset |-> k] :
            n \in Editable, k \in scope.extents}
    ELSE IF host = "IE"
    THEN {NoRange} \cup
         {Range(p[1], 0, p[2]) :
            p \in {q \in Editable \X scope.extents : q[2] <= Len(innerText[q[1]])}}
    ELSE {NoSelection}

Callbacks == {NULL, "notify", "deactivate"}

InitWorld ==
    /\ obj = [s \in Sessions |-> NewSession]
    /\ EditableGeckoRef = NULL
    /\ editableWebkitRef = NULL
    /\ editableIERef = NULL
    /\ slot = [n \in Nodes |-> "node"]
    /\ frameStyle = [n \in Nodes |-> NoStyle]
    /\ designMode = [n \in Nodes |-> "off"]
    /\ contentEditable = [n \in Nodes |-> "inherit"]
    /\ listeners = [n \in Nodes |-> {}]
    /\ bodyHeight = 1
    /\ lastOp = [op |-> "init", s |-> NULL, arg |-> NULL]
    /\ ret = UNDEFINED
    /\ log = <<>>

\* the worlds of a specification: the hosts and the scope
InitWith(hosts, sc) ==
    /\ host \in hosts
    /\ hasStyle \in (IF host = "Gecko" THEN BOOLEAN ELSE {TRUE})
    /\ scope = sc
    /\ InitWorld
    /\ style = [n \in Nodes |-> IF n = "n1" THEN InlineStyle ELSE NoStyle]
    /\ cmdState \in [bold : {FALSE}, forecolor : sc.colors]
    /\ selection = (IF host = "IE" THEN NoRange ELSE NoSelection)
    /\ innerText = [n \in Nodes |-> Text(1)]

\* one session on any host; the user places the caret and types
Init ==
    InitWith(Hosts, [sessions |-> {"s1"}, colors |-> {ColorRgb}, extents |-> {0},
                     texts |-> 1..MaxText])

\* ------------------------------------------------------------ actions
\* the state a call or event leaves behind
Finish(w, op, s, arg) ==
    /\ obj' = w.obj
    /\ EditableGeckoRef' = w.EditableGeckoRef
    /\ editableWebkitRef' = w.editableWebkitRef
    /\ editableIERef' = w.editableIERef
    /\ slot' = w.slot
    /\ style' = w.style
    /\ frameStyle' = w.frameStyle
    /\ designMode' = w.designMode
    /\ contentEditable' = w.contentEditable
    /\ listeners' = w.listeners
    /\ cmdState' = w.cmdState
    /\ selection' = w.selection
    /\ innerText' = w.innerText
    /\ bodyHeight' = w.bodyHeight
    /\ lastOp' = [op |-> op, s |-> s, arg |-> arg]
    /\ ret' = (IF w.exc THEN "TypeError" ELSE w.rv)
    /\ log' = w.log
    /\ UNCHANGED <<host, hasStyle, scope>>

SetStateChangeCallBack(s, callBack) ==
    Finish(setStateChangeCallBack(World, s, callBack), "setStateChangeCallBack", s, callBack)

EditableOn(s, node, offsetHeight) ==
    Finish(editableOn(World, s, node, offsetHeight), "editableOn", s, node)

EditableOff(s) ==
    Finish(editableOff(World, s), "editableOff", s, NULL)

ExecCommand(s, command) ==
    Finish(execCommand(World, s, command), "execCommand", s, command)

CheckCommandState(s) ==
    Finish(checkCommandState(World, s), "checkCommandState", s, NULL)

\* a key or pointer event (Gecko: also a resize) on a node or frame that
\* holds a registration of the shared handler
HostEvent(n) ==
    /\ listeners[n] # {}
    /\ Finish(handler(World), "event", NULL, n)

\* the user moves the caret or the selection: the host reports another
\* command state and another selection
SelectionChange(c, sel) ==
    /\ <<c, sel>> # <<cmdState, selection>>
    /\ Finish([World EXCEPT !.cmdState = c, !.selection = sel], "user", NULL, NULL)

\* What a change of a node's text does to a range the host has handed out
\* (line 606-612): a range that ended at the end of the text grows or
\* shrinks with it, and no range reaches beyond the text.
adjustedRange(r, n, oldLen, newLen) ==
    IF r.type # "range" \/ r.v.node # n THEN r
    ELSE Range(n, Min(r.v.start, newLen),
               IF r.v.end >= oldLen THEN newLen ELSE Min(r.v.end, newLen))

\* the user types at the caret, in an editable node, and the node's rendered
\* text changes (only EditableIE reads it)
TextChange(n, txt) ==
    /\ host = "IE"
    /\ contentEditable[n] = "true"
    /\ selection.v.node = n
    /\ txt # innerText[n]
    /\ Finish([World EXCEPT !.innerText[n] = txt,
                            !.selection = adjustedRange(@, n, Len(innerText[n]), Len(txt)),
                            !.obj = [s \in Sessions |->
                                        [@[s] EXCEPT !.cachedRange =
                                            adjustedRange(@, n, Len(innerText[n]), Len(txt))]]],
              "user", NULL, NULL)

\* the content of the sub-document grows or shrinks (only EditableGecko reads it)
BodyResize(h) ==
    /\ host = "Gecko"
    /\ h # bodyHeight
    /\ Finish([World EXCEPT !.bodyHeight = h], "user", NULL, NULL)

Next ==
    \/ \E s \in scope.sessions, callBack \in Callbacks : SetStateChangeCallBack(s, callBack)
    \/ \E s \in scope.sessions, node \in Nodes \cup {NULL, TEXT}, offsetHeight \in Heights :
            EditableOn(s, node, offsetHeight)
    \/ \E s \in scope.sessions : EditableOff(s)
    \/ \E s \in scope.sessions, command \in Commands : ExecCommand(s, command)
    \/ \E s \in scope.sessions : CheckCommandState(s)
    \/ \E n \in Nodes : HostEvent(n)
    \/ \E c \in CmdStates, sel \in Selections : SelectionChange(c, sel)
    \/ \E n \in Nodes, txt \in Texts : TextChange(n, txt)
    \/ \E h \in Heights : BodyResize(h)

Spec == Init /\ [][Next]_vars

\* ------------------------------------------------------------ colour values
\* The values a host can report for forecolor, as inputs of convertColor and
\* of getCommandState: packed numbers, rgb(...) strings with and without
\* blanks and with components around and above one byte, #-strings of
\* several shapes, and strings of no known shape.
MaxComponent == 256
Bytes == {0, 15, 16, MaxComponent - 1}
Components == {0, 9, 16, MaxComponent - 1, MaxComponent}

\* the decimal digits of a non-negative integer
RECURSIVE Dec(_)
Dec(n) ==
    IF n < 10 THEN <<DecDigits[n + 1]>>
    ELSE Dec(n \div 10) \o <<DecDigits[(n % 10) + 1]>>

RgbString(r, g, b, sep) ==
    Str(<<"r", "g", "b", "(">> \o Dec(r) \o sep \o Dec(g) \o sep \o Dec(b) \o <<")">>)

PackedColors == {Num(r + 256 * g + 65536 * b) : r \in Bytes, g \in Bytes, b \in Bytes}
RgbColors ==
    {RgbString(r, g, b, sep) : r \in Components, g \in Components, b \in Components,
                               sep \in {<<",">>, <<",", " ">>}}
HashColors ==
    {Str(<<"#", "a", "b", "c", "d", "e", "f">>), Str(<<"#", "f", "f", "0", "0", "0", "0">>),
     Str(<<"#", "a", "b", "c">>), Str(<<"#", "A", "B", "C", "D", "E", "F">>), Str(<<"#">>)}
OtherColors ==
    {ColorNone, ColorNamed, Str(<<"r", "g", "b">>),
     Str(<<"r", "g", "b", "(", "1", ",", "2", ")">>)}
ColorInputs == RawColors \cup PackedColors \cup RgbColors \cup HashColors \cup OtherColors

\* one session on any host, and a host that reports one of the colour values
InitColor ==
    InitWith(Hosts, [sessions |-> {"s1"}, colors |-> ColorInputs, extents |-> {0},
                     texts |-> {1}])

\* convertColor(v), line 22-52, applied to the value the host reports
ConvertColor(v) ==
    Finish(Return(World, convertColor(v)), "convertColor", NULL, NULL)

\* getCommandState(), line 152-179, called by the application
GetCommandState(s) ==
    Finish(Return(World, getCommandState(World, s)), "getCommandState", s, NULL)

\* the application turns editing on and reads the colour back both ways
NextColor ==
    \/ \E s \in scope.sessions : EditableOn(s, "n1", 1)
    \/ \E v \in {cmdState.forecolor} : ConvertColor(v)
    \/ \E s \in scope.sessions : GetCommandState(s)

SpecColor == InitColor /\ [][NextColor]_vars

\* ------------------------------------------------------------ Trident selections
\* One session in IE, without a change callback.  The user puts the caret at
\* the start of an editable node or selects up to MaxOffset of its first
\* characters, and types; the application turns editing on and off and
\* executes commands.
InitIE ==
    InitWith({"IE"}, [sessions |-> {"s1"}, colors |-> {ColorPacked}, extents |-> 0..MaxOffset,
                      texts |-> 1..MaxText])

NextIE ==
    \/ \E s \in scope.sessions, node \in Nodes \cup {NULL, TEXT}, offsetHeight \in Heights :
            EditableOn(s, node, offsetHeight)
    \/ \E s \in scope.sessions : EditableOff(s)
    \/ \E s \in scope.sessions, command \in Commands : ExecCommand(s, command)
    \/ \E n \in Nodes : HostEvent(n)
    \/ \E c \in CmdStates, sel \in Selections : SelectionChange(c, sel)
    \/ \E n \in Nodes, txt \in Texts : TextChange(n, txt)

SpecIE == InitIE /\ [][NextIE]_vars

\* ------------------------------------------------------------ two sessions
\* NumSessions sessions of the same strategy on one page.  The application
\* registers no callback or one that turns editing off, turns the sessions on
\* and off, and the host raises events on the nodes and frames that hold
\* listeners.
InitShared ==
    InitWith(Hosts, [sessions |-> Sessions, colors |-> {ColorRgb}, extents |-> {0},
                     texts |-> {1}])

NextShared ==
    \/ \E s \in scope.sessions, callBack \in {NULL, "deactivate"} :
            SetStateChangeCallBack(s, callBack)
    \/ \E s \in scope.sessions, node \in Nodes : EditableOn(s, node, 1)
    \/ \E s \in scope.sessions : EditableOff(s)
    \/ \E n \in Nodes : HostEvent(n)

SpecShared == InitShared /\ [][NextShared]_vars

\* ------------------------------------------------------------ vocabulary of the claims
\* the callbacks the last call or event made, in order
Fired == SelectSeq(log, LAMBDA e : e.e = "cb")
Ran(e) == \E i \in DOMAIN log : log[i].e = e

\* what the host's execute-command primitive returns for a command
HostResult(command) == hostExecCommand(World, command).rv

\* the session holds a listener registration on some node or frame
HasListener(s) == \E n \in Nodes : s \in listeners[n]
\* ... on the node (Gecko: the frame) it edits
ListensOnTarget(s) == obj[s].node \in Nodes /\ s \in listeners[obj[s].node]

FullyInactive(s) == obj[s].doc = NULL /\ obj[s].node = NULL /\ ~HasListener(s)
FullyActive(s) == obj[s].doc # NULL /\ obj[s].node # NULL /\ ListensOnTarget(s)

\* the state a session and the page around it are in
sessionState == <<obj, EditableGeckoRef, editableWebkitRef, editableIERef, slot, style,
                  frameStyle, designMode, contentEditable, listeners>>

\* ------------------------------------------------------------ claims
\* C1: execCommand on a session whose doc is set runs the pre-hook, the host
\* command, the post-hook and the state re-check and returns what the host's
\* execCommand returned; it never ends in an exception.
C1_ExecCommandReturnsHostResult ==
    [][(lastOp'.op = "execCommand" /\ obj[lastOp'.s].doc # NULL)
        => /\ ret' = HostResult(lastOp'.arg)
           /\ Ran("pre")' /\ Ran("exec")' /\ Ran("post")' /\ Ran("check")']_vars

\* C2: checkCommandState on an active session with a cached snapshot and a
\* registered callback, when a key of the fresh snapshot differs from the
\* cached one, calls the callback exactly once with the fresh snapshot and
\* leaves the fresh snapshot in the cache.
C2_ChangedSnapshotFiresOnce ==
    [][(/\ lastOp'.op = "checkCommandState"
        /\ obj[lastOp'.s].doc # NULL /\ obj[lastOp'.s].node # NULL
        /\ obj[lastOp'.s].stateChangeCallback # NULL
        /\ obj[lastOp'.s].cachedCommandArray.type = "array"
        /\ getCommandState(World, lastOp'.s) # obj[lastOp'.s].cachedCommandArray)
        => /\ Len(Fired') = 1
           /\ Fired'[1].arg = getCommandState(World, lastOp'.s)
           /\ obj'[lastOp'.s].cachedCommandArray = getCommandState(World, lastOp'.s)]_vars

\* C3: of two checkCommandState calls in a row on an active session with a
\* registered callback, with nothing changing in between, the second returns
\* normally and calls no callback.
C3_SecondCheckIsQuiet ==
    [][(/\ lastOp.op = "checkCommandState"
        /\ lastOp'.op = "checkCommandState"
        /\ lastOp'.s = lastOp.s
        /\ obj[lastOp.s].doc # NULL /\ obj[lastOp.s].node # NULL
        /\ obj[lastOp.s].stateChangeCallback # NULL)
        => (ret' = "true" /\ Fired' = <<>>)]_vars

\* C4: editableOff on an inactive session changes nothing, returns false and
\* does not throw.
C4_DeactivateInactiveIsNoOp ==
    [][(/\ lastOp'.op = "editableOff"
        /\ obj[lastOp'.s].doc = NULL /\ obj[lastOp'.s].node = NULL
        /\ obj[lastOp'.s].iframe = NULL)
        => (ret' = "false" /\ UNCHANGED sessionState)]_vars

\* C5: when the change callback turns editing off from inside an event
\* handler's update or an execCommand, the enclosing call ends without an
\* exception and the session holds no listener afterwards.
C5_ReentrantDeactivateIsSafe ==
    \A s \in scope.sessions :
        (/\ lastOp.op \in {"event", "execCommand"}
         /\ obj[s].stateChangeCallback = "deactivate"
         /\ \E i \in DOMAIN Fired : Fired[i].s = s)
        => (ret # "TypeError" /\ ~HasListener(s))

\* C6: between calls every session is fully inactive (no doc, no node, no
\* listener on any node or frame) or fully active (doc, node, listeners on
\* its target).
C6_FullyActiveOrInactive ==
    \A s \in scope.sessions : FullyInactive(s) \/ FullyActive(s)

\* C7: editableOff clears the cached snapshot, and the first
\* checkCommandState after an editableOn calls the registered callback.
C7_FirstCheckAfterActivateFires ==
    [][/\ (lastOp'.op = "editableOff" /\ ret' # "TypeError")
            => ~Truthy(obj'[lastOp'.s].cachedCommandArray)
       /\ (/\ lastOp.op = "editableOn" /\ ~Ran("check")
           /\ lastOp'.op = "checkCommandState" /\ lastOp'.s = lastOp.s
           /\ obj[lastOp.s].doc # NULL /\ obj[lastOp.s].node # NULL
           /\ obj[lastOp.s].stateChangeCallback # NULL)
            => (ret' = "true" /\ Fired' # <<>>)]_vars

\* C8: editableOn of an element node that has made the session active
\* returns true.
C8_ActivateReturnsTrue ==
    (/\ lastOp.op = "editableOn"
     /\ lastOp.arg \in Nodes
     /\ FullyActive(lastOp.s))
    => ret = "true"

\* C9: editableOn of null or of a node that is no element returns false and
\* leaves the session, the active-instance slots, the listeners and the
\* nodes as they were.
C9_RejectedActivateChangesNothing ==
    [][(lastOp'.op = "editableOn" /\ lastOp'.arg \notin Nodes)
        => (ret' = "false" /\ UNCHANGED sessionState)]_vars

\* C9 happens: a text node was refused, on a session that is editing a node
C9_Witness ==
    /\ lastOp.op = "editableOn"
    /\ lastOp.arg = TEXT
    /\ ret = "false"
    /\ FullyActive(lastOp.s)

\* C10: after editableOff the session's doc and node are null again.
C10_DeactivateClearsDocAndNode ==
    lastOp.op = "editableOff" => (obj[lastOp.s].doc = NULL /\ obj[lastOp.s].node = NULL)

\* C11: execCommand on a session without doc returns false and does nothing
\* else: no hook, no host command, no check and no callback runs, and the
\* session objects, the host's command state and the selection stay as they
\* were.
C11_ExecCommandInactiveIsNoOp ==
    [][(lastOp'.op = "execCommand" /\ obj[lastOp'.s].doc = NULL)
        => /\ ret' = "false"
           /\ log' = <<>>
           /\ UNCHANGED <<sessionState, cmdState, selection>>]_vars

\* C11 happens: execCommand on a session that was editing before and still
\* holds the snapshot and the callback of that time
C11_Witness ==
    /\ lastOp.op = "execCommand"
    /\ obj[lastOp.s].doc = NULL
    /\ obj[lastOp.s].stateChangeCallback # NULL
    /\ Truthy(obj[lastOp.s].cachedCommandArray)
    /\ ret = "false"

\* C12: in one execCommand every call of the change callback comes after the
\* host command, which comes after the pre-hook; in one host event no
\* pre-hook and no host command runs, so no callback can come before them.
C12_CallbackAfterCommand ==
    \A i \in DOMAIN log :
        log[i].e = "cb" =>
            /\ lastOp.op = "execCommand" =>
                    \E j \in 1..(i - 1) : /\ log[j].e = "exec"
                                          /\ \E k \in 1..(j - 1) : log[k].e = "pre"
            /\ \A j \in DOMAIN log : (j > i) => log[j].e \notin {"pre", "exec"}

\* C12 happens: an execCommand whose post-hook called the callback
C12_Witness ==
    /\ lastOp.op = "execCommand"
    /\ Fired # <<>>
    /\ Ran("pre") /\ Ran("exec")

\* C13: every call of the change callback, whether it comes from an
\* execCommand, a host event or a direct checkCommandState, passes a snapshot
\* array with exactly one entry for each of the six commands; it never
\* passes false.
C13_CallbackReceivesSnapshot ==
    \A i \in DOMAIN Fired :
        /\ Fired[i].arg.type = "array"
        /\ DOMAIN Fired[i].arg.v = CommandNames
        /\ Cardinality(CommandNames) = 6

\* the colour the host reports, as getCommandState reads it
RawColor == queryCommandValue(World, "forecolor")

\* "#" followed by six lowercase hexadecimal digits
IsHexColor(x) ==
    /\ x.type = "string"
    /\ Len(x.v) = 7
    /\ x.v[1] = "#"
    /\ \A i \in 2..7 : \E d \in DOMAIN HexDigits : HexDigits[d] = x.v[i]

\* C14: when the host's value for forecolor is not empty and convertColor
\* returns null for it, the forecolor entry of the snapshot is the host's
\* value, not null.
C14_UnreadableColorKeptRaw ==
    (/\ lastOp.op = "getCommandState"
     /\ ret.type = "array"
     /\ Truthy(RawColor)
     /\ convertColor(RawColor) = JNull)
    => ret.v["forecolor"] = RawColor

\* C15: convertColor returns null or "#" followed by exactly six lowercase
\* hexadecimal digits, for every number, every rgb(...) string and every
\* string that begins with "#".
C15_ConvertColorShape ==
    lastOp.op = "convertColor" => (ret = JNull \/ IsHexColor(ret))

\* C16: applying convertColor to a result of convertColor that is not null
\* gives that result again.
C16_ConvertColorIdempotent ==
    (lastOp.op = "convertColor" /\ ret # JNull) => convertColor(ret) = ret

\* C16 happens: convertColor turned a number or an rgb(...) string into
\* another value
C16_Witness ==
    /\ lastOp.op = "convertColor"
    /\ ret # JNull
    /\ ret # RawColor

\* the number of characters of the live text a range covers
CoveredLength(r) ==
    LET len == IF r.v.node \in Nodes THEN Len(innerText[r.v.node]) ELSE 0
    IN (IF r.v.end < len THEN r.v.end ELSE len) - (IF r.v.start < len THEN r.v.start ELSE len)

\* the number of characters of the cached text snapshot
SnapshotLength(o) == IF o.cachedInnerText.type = "string" THEN Len(o.cachedInnerText.v) ELSE 0

\* where a start that moves forward by count characters comes to rest
StartMovedBy(r, count) ==
    LET len == IF r.v.node \in Nodes THEN Len(innerText[r.v.node]) ELSE 0
    IN IF r.v.start + count < len THEN r.v.start + count ELSE len

\* C17, as stated: the pre-hook of an execCommand in IE, on a session that is
\* editing a node: without a cached range it selects nothing; with a cached
\* range and a cached text snapshot equal to the node's text it selects the
\* cached range as it is; with a cached range and a snapshot that differs it
\* moves the start of the range forward by the number of characters of the
\* snapshot and selects the range.
C17_RestoreShiftsStartBySnapshotLength ==
    [][(/\ lastOp'.op = "execCommand"
        /\ host = "IE"
        /\ obj[lastOp'.s].doc # NULL
        /\ obj[lastOp'.s].node # NULL)
        => LET o == obj[lastOp'.s]
               r == o.cachedRange
           IN IF r.type # "range" THEN selection' = selection
              ELSE IF o.cachedInnerText = Str(innerText[o.node]) THEN selection' = r
              ELSE /\ selection'.v.node = r.v.node
                   /\ selection'.v.start = StartMovedBy(r, SnapshotLength(o))]_vars

\* C17, amended: as above, but the start moves forward by the number of
\* characters the cached range covers when the pre-hook runs, which puts it
\* at the end of the range.
C17_RestoreShiftsStartByTextLength ==
    [][(/\ lastOp'.op = "execCommand"
        /\ host = "IE"
        /\ obj[lastOp'.s].doc # NULL
        /\ obj[lastOp'.s].node # NULL)
        => LET o == obj[lastOp'.s]
               r == o.cachedRange
           IN IF r.type # "range" THEN selection' = selection
              ELSE IF o.cachedInnerText = Str(innerText[o.node]) THEN selection' = r
              ELSE selection' = [r EXCEPT !.v.start = @ + CoveredLength(r)]]_vars

\* C17 happens: an execCommand in IE has selected a range whose start it
\* moved forward
C17_Witness ==
    /\ lastOp.op = "execCommand"
    /\ host = "IE"
    /\ selection.v.node \in Nodes
    /\ selection.v.start > 0

\* C18: editableOff in Gecko, on a session whose frame stands in the parent,
\* puts the node back with width, height, top and left as they were before
\* editableOn where the node had them set, and as the frame has them now
\* where it had not.  originalNode holds the values from before editableOn;
\* a position that was set moved to the frame then, so the frame's position
\* is the value from before in both cases.
C18_DeactivateRestoresGeometry ==
    [][(/\ lastOp'.op = "editableOff"
        /\ host = "Gecko"
        /\ obj[lastOp'.s].iframe \in Nodes
        /\ obj[lastOp'.s].node # NULL)
        => LET f == obj[lastOp'.s].iframe
               orig == obj[lastOp'.s].originalNode
               fs == frameStyle[f]
           IN /\ slot'[f] = "node"
              /\ \A p \in {"width", "height", "top", "left"} :
                    style'[f][p] = (IF orig[p] # EMPTY THEN orig[p] ELSE fs[p])
              /\ style'[f].position = fs.position]_vars

\* a node or frame is open for editing
IsEditable(n) == contentEditable[n] = "true" \/ designMode[n] = "on"

\* C20: a session leaves at most one node editable with its listeners
\* attached, and that node is the one its node field names.
C20_OneTargetPerSession ==
    \A s \in scope.sessions : \A n \in Nodes :
        (s \in listeners[n] /\ IsEditable(n)) => obj[s].node = n

\* the session the strategy's process-wide reference names
ActiveRef ==
    CASE host = "Gecko" -> EditableGeckoRef
      [] host = "Webkit" -> editableWebkitRef
      [] host = "IE" -> editableIERef

\* C19: the process-wide reference names the session whose editableOn
\* completed last, nothing but an editableOn re-points it, and every host
\* event, on whichever node or frame it is raised, runs update() of that
\* session and of no other.
C19_EventsGoToLastActivated ==
    [][/\ (lastOp'.op = "editableOn" /\ ret' = UNDEFINED) => ActiveRef' = lastOp'.s
       /\ (lastOp'.op # "editableOn") => ActiveRef' = ActiveRef
       /\ (lastOp'.op = "event")
            => /\ ActiveRef # NULL
               /\ Ran("update")'
               /\ \A i \in DOMAIN log' : log'[i].e = "update" => log'[i].s = ActiveRef]_vars

\* C19 happens: an event on a node that holds the listeners of one session
\* only has run update() of another session
C19_Witness ==
    /\ lastOp.op = "event"
    /\ \E a \in scope.sessions, b \in scope.sessions :
        /\ a # b
        /\ listeners[lastOp.arg] = {a}
        /\ obj[a].node = lastOp.arg
        /\ \E i \in DOMAIN log : log[i].e = "update" /\ log[i].s = b

\* the session whose update() a call or event of the Gecko strategy runs
UpdatedSession == IF lastOp'.op = "event" THEN EditableGeckoRef ELSE lastOp'.s

\* the session is active on a frame that stands in the document
GeckoActive(o) == o.doc \in Nodes /\ o.iframe \in Nodes /\ o.node \in Nodes

\* C21: on the Gecko strategy, an editableOn that activates an inactive
\* session on a node, and every handled event and every execCommand on an
\* active session, re-checks the command state and leaves the height of the
\* session's frame equal to the rendered height of the sub-document's body,
\* with and without a registered callback (a callback that only takes note).
C21_UpdateChecksThenResizes ==
    [][(/\ host = "Gecko"
        /\ hasStyle
        /\ lastOp'.op \in {"editableOn", "event", "execCommand"}
        /\ UpdatedSession \in scope.sessions
        /\ obj[UpdatedSession].stateChangeCallback # "deactivate"
        /\ IF lastOp'.op = "editableOn"
           THEN /\ obj[UpdatedSession] = [NewSession EXCEPT
                        !.stateChangeCallback = obj[UpdatedSession].stateChangeCallback,
                        !.cachedCommandArray = obj[UpdatedSession].cachedCommandArray,
                        !.originalNode = obj[UpdatedSession].originalNode]
                /\ lastOp'.arg \in Nodes
                /\ slot[lastOp'.arg] = "node"
           ELSE GeckoActive(obj[UpdatedSession]))
        => /\ Ran("check")'
           /\ GeckoActive(obj'[UpdatedSession])
           /\ frameStyle'[obj'[UpdatedSession].iframe].height = Px(bodyHeight')]_vars

\* C22: while some session is active with the shared handler attached to
\* its node or frame, the strategy's process-wide reference names a session
\* whose doc and node are set, so that no event runs update() of a session
\* that is turned off.
C22_HandlerReachesActiveSession ==
    (\E s \in scope.sessions : FullyActive(s))
        => /\ ActiveRef # NULL
           /\ obj[ActiveRef].doc # NULL
           /\ obj[ActiveRef].node # NULL

\* the run logged in l called the callback of session s with snapshot a
FiredWith(l, s, a) == \E i \in DOMAIN l : l[i].e = "cb" /\ l[i].s = s /\ l[i].arg = a

\* C23: whatever runs checkCommandState, the cached snapshot of a session
\* changes only in a step that calls the session's callback with the new
\* snapshot; while no callback is registered the cached snapshot stays as it
\* is; and a checkCommandState on a session that has a callback and no cached
\* snapshot calls the callback.
C23_CacheChangesOnlyWithCallback ==
    [][\A s \in scope.sessions :
        /\ obj'[s].cachedCommandArray # obj[s].cachedCommandArray
                => FiredWith(log', s, obj'[s].cachedCommandArray)
        /\ obj[s].stateChangeCallback = NULL
                => obj'[s].cachedCommandArray = obj[s].cachedCommandArray
        /\ (/\ lastOp'.op = "checkCommandState"
            /\ lastOp'.s = s
            /\ obj[s].stateChangeCallback # NULL
            /\ ~Truthy(obj[s].cachedCommandArray))
                => FiredWith(log', s, obj'[s].cachedCommandArray)]_vars

\* C23 happens: a session that was activated with no callback registered, so
\* that the check of its activation cached nothing, got a callback later and
\* a checkCommandState has called it with the first snapshot
C23_Witness ==
    /\ host = "Gecko"
    /\ lastOp.op = "checkCommandState"
    /\ obj[lastOp.s].doc # NULL
    /\ obj[lastOp.s].stateChangeCallback = "notify"
    /\ Truthy(obj[lastOp.s].cachedCommandArray)
    /\ Len(Fired) = 1
    /\ FiredWith(log, lastOp.s, obj[lastOp.s].cachedCommandArray)

====
